---- MODULE Spec2Model ----
(***************************************************************************)
(* A model of src/index.js (lines 1-173, the variant of the module that    *)
(* takes `isProd` as an explicit option): createServer and the middleware  *)
(* it installs, createRollbar / getRollbarHandler and the global client    *)
(* slot, serveStatic, and runMiddleware.                                   *)
(***************************************************************************)
EXTENDS Integers, Sequences, FiniteSets, TLC

VARIABLES
  app,          \* the { app, httpServer } last returned by createServer
  hits,         \* the rate limiter's store: source address -> hits this window
  sent,         \* requests each source has sent to the server this window
  req,          \* the request last handled
  res,          \* the response to it
  rollbar,      \* globalThis.rollbar
  constructed,  \* how many times `new Rollbar(...)` ran
  handler,      \* the middleware last returned by getRollbarHandler
  hcall,        \* what the last invocation of that middleware did
  lastCheck,    \* the last checkIgnore(isUncaught, args) call and its result
  staticMw,     \* the middleware last returned by serveStatic
  call,         \* the last call of an entry point taking `isProd`
  promise,      \* the promise last returned by runMiddleware
  fn            \* what the middleware wrapped by runMiddleware has done so far

vars == <<app, hits, sent, req, res, rollbar, constructed, handler, hcall,
          lastCheck, staticMw, call, promise, fn>>

serverVars == <<app, hits, sent, req, res>>
rollbarVars == <<rollbar, constructed, handler, hcall, lastCheck>>
promiseVars == <<promise, fn>>

----------------------------------------------------------------------------
(* JavaScript values *)

Undefined == [t |-> "undefined"]
Null == [t |-> "null"]
Bool(b) == [t |-> "boolean", b |-> b]
Num(n) == [t |-> "number", n |-> n]
Str(s) == [t |-> "string", s |-> s]

\* `v == null`
IsNullish(v) == v = Undefined \/ v = Null

\* ToBoolean(v)
Truthy(v) ==
  CASE v.t = "boolean" -> v.b
    [] v.t = "number" -> v.n # 0
    [] v.t = "string" -> v.s # ""
    [] v.t = "undefined" -> FALSE
    [] v.t = "null" -> FALSE
    [] OTHER -> TRUE

----------------------------------------------------------------------------
(* Numbers.  A millisecond quantity n is held as n = thousands * 1000 +    *)
(* units: one year in milliseconds does not fit TLC's integers.        *)

Millis(seconds) == [thousands |-> seconds, units |-> 0]

Digit(d) == <<"0", "1", "2", "3", "4", "5", "6", "7", "8", "9">>[d + 1]

RECURSIVE NumberToString(_)
NumberToString(n) ==
  IF n < 10 THEN Digit(n)
  ELSE NumberToString(n \div 10) \o Digit(n % 10)

\* the decimal digits of a fraction units/1000, trailing zeros dropped
FractionToString(u) ==
  IF u % 100 = 0 THEN Digit(u \div 100)
  ELSE IF u % 10 = 0 THEN Digit(u \div 100) \o Digit((u \div 10) % 10)
  ELSE Digit(u \div 100) \o Digit((u \div 10) % 10) \o Digit(u % 10)

\* `${ms / 1000}`
DividedBy1000ToString(ms) ==
  IF ms.units = 0 THEN NumberToString(ms.thousands)
  ELSE NumberToString(ms.thousands) \o "." \o FractionToString(ms.units)

----------------------------------------------------------------------------
(* Bounds and input sets *)

MaxRequests == 302        \* requests of the observed source per window
MaxOtherRequests == 2     \* requests of any other source per window
MaxRedirects == 2         \* redirected requests of a source per window
MaxHeaderRequests == 2    \* requests per source and window, header checks
MaxClients == 3           \* Rollbar clients constructed
MaxCallbacks == 3         \* completion-callback invocations per middleware

Hosts == {"feross.org", "www.feross.org"}
Methods == {"GET", "POST", "HEAD"}
Protocols == {"http", "https"}
Urls == {"/", "/a?b=1"}
ObservedIP == "10.0.0.1"
IPs == {ObservedIP, "10.0.0.2"}

Requests ==
  [method : Methods, protocol : Protocols, hostname : Hosts, url : Urls,
   ip : IPs]

NoReq == [method |-> "", protocol |-> "", hostname |-> "", url |-> "", ip |-> ""]

HeaderNames == {"Location", "Strict-Transport-Security", "X-Content-Type-Options"}

\* a response nothing has touched yet
NewRes ==
  [status |-> 0, headers |-> [h \in HeaderNames |-> ""], body |-> "",
   ended |-> FALSE, next |-> <<>>, log |-> <<>>, forwarded |-> FALSE,
   rateLimit |-> [limit |-> 0, current |-> 0]]

NoApp == Undefined
NoHits == [ip \in IPs |-> 0]
NoCall == [op |-> "", isProd |-> Undefined, seq |-> 0, threw |-> FALSE]

\* the options createServer is called with
ServerOptions ==
  [isProd : {Bool(TRUE), Bool(FALSE), Undefined, Null},
   host : Hosts,
   maxRequestsPerSecond : {Undefined, Num(1)}]

----------------------------------------------------------------------------
(* The response methods the middleware use *)

\* res.header(name, value)
header(rs, name, value) == [rs EXCEPT !.headers[name] = value]

\* res.redirect(status, url): sets Location, sends, and ends the response
redirect(rs, status, url) ==
  [header(rs, "Location", url) EXCEPT !.status = status, !.ended = TRUE]

\* res.status(code).send(body)
statusSend(rs, code, body) ==
  [rs EXCEPT !.status = code, !.body = body, !.ended = TRUE]

----------------------------------------------------------------------------
(* createServer *)

defaultMaxRequestsPerSecond == 5

OneYearSeconds == 365 * 24 * 60 * 60

\* a variant that caches for two years
maxAgeHsts_TwoYears(isProd) ==
  IF Truthy(isProd) THEN Millis(2 * OneYearSeconds) ELSE Millis(0)

\* const maxAgeHsts = isProd ? 365 * 24 * 60 * 60 * 1000 : 0
maxAgeHsts(isProd) ==
  IF Truthy(isProd) THEN Millis(OneYearSeconds) ELSE Millis(0)

\* the three app.set calls
useExpressConfig(a, isProd) ==
  [a EXCEPT !.settings =
     [trustProxy |-> TRUE,
      jsonSpaces |-> IF Truthy(isProd) THEN 0 ELSE 2,
      xPoweredBy |-> FALSE]]

\* a variant that redirects only requests wrong in both protocol and host
ShouldRedirect_BothWrong(isProd, host, rq) ==
  /\ Truthy(isProd)
  /\ rq.method = "GET"
  /\ (rq.protocol # "https" /\ rq.hostname # host)

\* the condition under which the security middleware redirects
ShouldRedirect(isProd, host, rq) ==
  /\ Truthy(isProd)
  /\ rq.method = "GET"
  /\ (rq.protocol # "https" \/ rq.hostname # host)

\* the Strict-Transport-Security value
HstsValue(maxAge) ==
  "max-age=" \o DividedBy1000ToString(maxAge) \o "; includeSubDomains; preload"

\* the middleware useSecurityHeaders installs; .next says whether it called next
SecurityHeaders(o, rq, rs) ==
  IF ShouldRedirect(o.isProd, o.host, rq)
  THEN [res |-> redirect(rs, 301, "https://" \o o.host \o rq.url),
        next |-> FALSE]
  ELSE [res |->
          [header(header(rs, "Strict-Transport-Security", HstsValue(o.maxAgeHsts)),
                  "X-Content-Type-Options", "nosniff")
             EXCEPT !.next = Append(@, "securityHeaders")],
        next |-> TRUE]

useSecurityHeaders(a, isProd, host) ==
  [a EXCEPT !.stack = Append(@,
     [name |-> "securityHeaders",
      opts |-> [isProd |-> isProd, host |-> host,
                maxAgeHsts |-> maxAgeHsts(isProd)]])]

\* morgan(format, { immediate }): writes one line for the request
Morgan(o, rs) == [rs EXCEPT !.log = Append(@, o)]

\* morgan(isProd ? 'combined' : 'dev', { immediate: !isProd })
useLogger(a, isProd) ==
  [a EXCEPT !.stack = Append(@,
     [name |-> "logger",
      opts |-> [format |-> IF Truthy(isProd) THEN "combined" ELSE "dev",
                immediate |-> ~Truthy(isProd)]])]

\* a variant that takes the per-second figure for the window's ceiling
RateLimitMax_PerSecond(maxRequestsPerSecond) == maxRequestsPerSecond

\* const max = 60 * maxRequestsPerSecond
RateLimitMax(maxRequestsPerSecond) == 60 * maxRequestsPerSecond

\* a variant without the `if (!isProd) return`
useRateLimit_Always(a, isProd, maxRequestsPerSecond) ==
  [a EXCEPT !.stack = Append(@,
     [name |-> "rateLimit",
      opts |-> [windowMs |-> 60 * 1000,
                max |-> 60 * maxRequestsPerSecond,
                headers |-> FALSE,
                rateLimitLogger |-> [format |-> "rate-limit",
                                     immediate |-> ~Truthy(isProd)]]])]

useRateLimit(a, isProd, maxRequestsPerSecond) ==
  IF ~Truthy(isProd) THEN a
  ELSE [a EXCEPT !.stack = Append(@,
     [name |-> "rateLimit",
      opts |-> [windowMs |-> 60 * 1000,
                max |-> RateLimitMax(maxRequestsPerSecond),
                headers |-> FALSE,
                rateLimitLogger |-> [format |-> "rate-limit",
                                     immediate |-> ~Truthy(isProd)]]])]

\* handler: (req, res, next) => { rateLimitLogger(...); res.status(503).send(...) }
RateLimitHandler(o, rs) ==
  statusSend(Morgan(o.rateLimitLogger, rs), 503, "Blocked for too many requests")

\* the middleware rateLimit({ windowMs, max, headers, handler }) returns: a
\* fixed-window counter per source that notes the count on the request
\* (req.rateLimit), hands a request over the ceiling to `handler` and any
\* other to next
RateLimiter(o, rq, rs, h) ==
  LET current == h[rq.ip] + 1
      h2 == [h EXCEPT ![rq.ip] = current]
      rs2 == [rs EXCEPT !.rateLimit = [limit |-> o.max, current |-> current]]
  IN IF current > o.max
     THEN [res |-> RateLimitHandler(o, rs2), hits |-> h2, next |-> FALSE]
     ELSE [res |-> [rs2 EXCEPT !.next = Append(@, "rateLimit")],
           hits |-> h2, next |-> TRUE]

\* one middleware of the stack, run on a request
Middleware(m, rq, rs, h) ==
  CASE m.name = "securityHeaders" ->
         LET out == SecurityHeaders(m.opts, rq, rs)
         IN [res |-> out.res, hits |-> h, next |-> out.next]
    [] m.name = "logger" ->
         [res |-> [Morgan(m.opts, rs) EXCEPT !.next = Append(@, "logger")],
          hits |-> h, next |-> TRUE]
    [] m.name = "rateLimit" -> RateLimiter(m.opts, rq, rs, h)

\* httpServer.on('request', app): the stack in order, up to the first
\* middleware that does not call next; past the stack the request goes on
\* to whatever the caller attaches later
RECURSIVE Dispatch(_, _, _, _, _)
Dispatch(stack, i, rq, rs, h) ==
  IF i > Len(stack) THEN [res |-> [rs EXCEPT !.forwarded = TRUE], hits |-> h]
  ELSE LET out == Middleware(stack[i], rq, rs, h)
       IN IF out.next THEN Dispatch(stack, i + 1, rq, out.res, out.hits)
          ELSE [res |-> out.res, hits |-> out.hits]

\* the value createServer returns (it has thrown when isProd == null)
createServer(o) ==
  LET mrps == IF o.maxRequestsPerSecond = Undefined
              THEN defaultMaxRequestsPerSecond
              ELSE o.maxRequestsPerSecond.n
      a0 == [settings |-> [trustProxy |-> FALSE, jsonSpaces |-> 0,
                           xPoweredBy |-> TRUE],
             stack |-> <<>>, listening |-> FALSE,
             closure |-> o]
      a1 == useExpressConfig(a0, o.isProd)
      a2 == useSecurityHeaders(a1, o.isProd, o.host)
      a3 == useLogger(a2, o.isProd)
  IN useRateLimit(a3, o.isProd, mrps)

\* a variant that tests `isProd === undefined`
createServerThrows_UndefinedOnly(o) == o.isProd = Undefined

\* if (isProd == null) throw new Error('Missing `isProd` option')
createServerThrows(o) == IsNullish(o.isProd)

CreateServer(o) ==
  /\ call' = [op |-> "createServer", isProd |-> o.isProd, seq |-> 1 - call.seq,
              threw |-> createServerThrows(o)]
  /\ IF createServerThrows(o)
     THEN UNCHANGED <<app, hits, sent, req, res>>
     ELSE /\ app' = createServer(o)
          /\ hits' = NoHits
          /\ sent' = NoHits
          /\ req' = NoReq
          /\ res' = NewRes
  /\ UNCHANGED <<rollbarVars, staticMw, promiseVars>>

\* one request, through the whole stack
HandleRequest(rq) ==
  /\ app # NoApp
  /\ LET out == Dispatch(app.stack, 1, rq, NewRes, hits)
     IN /\ res' = out.res
        /\ hits' = out.hits
  /\ req' = rq
  /\ sent' = [sent EXCEPT ![rq.ip] = @ + 1]
  /\ UNCHANGED <<app, rollbarVars, staticMw, call, promiseVars>>

\* windowMs have passed: the limiter's store starts over
WindowReset ==
  /\ app # NoApp
  /\ \E ip \in IPs : sent[ip] > 0
  /\ hits' = NoHits
  /\ sent' = NoHits
  /\ UNCHANGED <<app, req, res, rollbarVars, staticMw, call, promiseVars>>

----------------------------------------------------------------------------
(* createRollbar, checkIgnore, getRollbarHandler *)

\* an Error (or error-like object) carrying an optional `status`
Error(id, status) == [t |-> "error", id |-> id, status |-> status]

\* v.status
StatusOf(v) == IF v.t = "error" THEN v.status ELSE Undefined

Statuses ==
  {Undefined, Num(200), Num(400), Num(401), Num(403), Num(404), Num(412),
   Num(416), Num(500), Str("404")}

\* what reaches the client as args[0]: errors with any status, or a message
Reportables == {Error("e1", st) : st \in Statuses} \cup {Str("boom")}

AccessTokens == {"tokenA", "tokenB"}

RollbarOptions ==
  [accessToken : AccessTokens,
   isProd : {Bool(TRUE), Bool(FALSE), Undefined, Null}]

\* a variant that ignores listed statuses of uncaught errors too
checkIgnore_UncaughtToo(isUncaught, args) ==
  StatusOf(args[1]) \in {Num(400), Num(403), Num(404), Num(412), Num(416)}

\* the checkIgnore option given to the client
checkIgnore(isUncaught, args) ==
  LET err == args[1]
  IN IF isUncaught THEN FALSE
     ELSE IF StatusOf(err) = Num(400) THEN TRUE
     ELSE IF StatusOf(err) = Num(403) THEN TRUE
     ELSE IF StatusOf(err) = Num(404) THEN TRUE
     ELSE IF StatusOf(err) = Num(412) THEN TRUE
     ELSE IF StatusOf(err) = Num(416) THEN TRUE
     ELSE FALSE

\* new Rollbar({ accessToken, captureUncaught, captureUnhandledRejections, ... })
NewRollbar(accessToken, id) ==
  [t |-> "rollbar", id |-> id, accessToken |-> accessToken,
   captureUncaught |-> TRUE, captureUnhandledRejections |-> TRUE]

createRollbarThrows(o) == IsNullish(o.isProd)

\* a variant that empties the slot outside production
createRollbar_Clears(o, slot, n) ==
  IF ~Truthy(o.isProd) THEN [slot |-> Undefined, n |-> n]
  ELSE [slot |-> NewRollbar(o.accessToken, n + 1), n |-> n + 1]

\* the global slot and the number of clients constructed, after a call
\* that did not throw
createRollbar(o, slot, n) ==
  IF ~Truthy(o.isProd) THEN [slot |-> slot, n |-> n]
  ELSE [slot |-> NewRollbar(o.accessToken, n + 1), n |-> n + 1]

CreateRollbar(o) ==
  /\ Truthy(o.isProd) => constructed < MaxClients
  /\ call' = [op |-> "createRollbar", isProd |-> o.isProd, seq |-> 1 - call.seq,
              threw |-> createRollbarThrows(o)]
  /\ IF createRollbarThrows(o)
     THEN UNCHANGED <<rollbar, constructed>>
     ELSE LET out == createRollbar(o, rollbar, constructed)
          IN /\ rollbar' = out.slot
             /\ constructed' = out.n
  /\ UNCHANGED <<serverVars, handler, hcall, lastCheck, staticMw, promiseVars>>

\* (req, res, next) => next()
PassThrough == [kind |-> "passThrough", client |-> 0]

\* if (globalThis.rollbar) return globalThis.rollbar.errorHandler() else ...
getRollbarHandler(slot) ==
  IF Truthy(slot) THEN [kind |-> "errorHandler", client |-> slot.id]
  ELSE PassThrough

NoHandler == [kind |-> "", client |-> 0]
NoHcall == [next |-> <<>>, reported |-> FALSE, resEnded |-> FALSE]

GetRollbarHandler ==
  /\ handler' = getRollbarHandler(rollbar)
  /\ hcall' = NoHcall
  /\ UNCHANGED <<serverVars, rollbar, constructed, lastCheck, staticMw, call,
                 promiseVars>>

\* a variant that hands next what it was given
RunPassThrough_Forwards(err) ==
  [next |-> << <<err>> >>, reported |-> FALSE, resEnded |-> FALSE]

\* what (req, res, next) => next() does when run
RunPassThrough(err) ==
  [next |-> << <<>> >>, reported |-> FALSE, resEnded |-> FALSE]

\* what the client's error handler does when run: it reports the error
\* unless checkIgnore says to ignore it, and calls next(err)
RunErrorHandler(err) ==
  [next |-> << <<err>> >>, reported |-> ~checkIgnore(FALSE, <<err>>),
   resEnded |-> FALSE]

RunHandler(h, err) ==
  IF h.kind = "passThrough" THEN RunPassThrough(err) ELSE RunErrorHandler(err)

InvokeHandler(err) ==
  /\ handler # NoHandler
  /\ hcall' = RunHandler(handler, err)
  /\ UNCHANGED <<serverVars, rollbar, constructed, handler, lastCheck, staticMw,
                 call, promiseVars>>

NoCheck == [isUncaught |-> FALSE, err |-> Undefined, ignore |-> FALSE, n |-> 0]

\* the client consults checkIgnore for an item it is about to report
ReportError(isUncaught, err) ==
  /\ rollbar # Undefined
  /\ lastCheck' = [isUncaught |-> isUncaught, err |-> err,
                   ignore |-> checkIgnore(isUncaught, <<err>>),
                   n |-> 1]
  /\ UNCHANGED <<serverVars, rollbar, constructed, handler, hcall, staticMw,
                 call, promiseVars>>

----------------------------------------------------------------------------
(* serveStatic *)

StaticPaths == {"static", "public"}

StaticOptions ==
  [isProd : {Bool(TRUE), Bool(FALSE), Undefined, Null},
   maxAge : {Undefined, Millis(60)}]

\* const maxAgeStatic = isProd ? 365 * 24 * 60 * 60 * 1000 : 0
maxAgeStatic(isProd) ==
  IF Truthy(isProd) THEN Millis(OneYearSeconds) ELSE Millis(0)

serveStaticThrows(o) == IsNullish(o.isProd)

\* express.static(path, { maxAge: maxAgeStatic, ...opts })
serveStatic(path, o) ==
  [t |-> "static", path |-> path,
   maxAge |-> IF o.maxAge # Undefined THEN o.maxAge ELSE maxAgeStatic(o.isProd)]

ServeStatic(path, o) ==
  /\ call' = [op |-> "serveStatic", isProd |-> o.isProd, seq |-> 1 - call.seq,
              threw |-> serveStaticThrows(o)]
  /\ IF serveStaticThrows(o)
     THEN UNCHANGED staticMw
     ELSE staticMw' = serveStatic(path, o)
  /\ UNCHANGED <<serverVars, rollbarVars, promiseVars>>

----------------------------------------------------------------------------
(* runMiddleware *)

\* the values a middleware hands its completion callback, or throws
CallbackValues ==
  {Undefined, Bool(FALSE), Num(0), Str("route"), Error("e1", Undefined),
   Error("e2", Num(404)), [t |-> "object", id |-> "o1"]}

\* result instanceof Error
InstanceofError(v) == v.t = "error"

NoPromise == [id |-> 0, state |-> "none", value |-> Undefined]
NoFn == [sync |-> FALSE, events |-> <<>>]

\* a variant that settles again
resolve_Again(p, v) == [p EXCEPT !.state = "fulfilled", !.value = v]

\* the promise's resolve function: acts only on a pending promise
resolve(p, v) ==
  IF p.state = "pending" THEN [p EXCEPT !.state = "fulfilled", !.value = v]
  ELSE p

\* the promise's reject function: acts only on a pending promise
reject(p, v) ==
  IF p.state = "pending" THEN [p EXCEPT !.state = "rejected", !.value = v]
  ELSE p

\* a variant that takes any truthy result for an error
callback_Truthy(p, result) ==
  IF Truthy(result) THEN reject(p, result) ELSE resolve(p, result)

\* (result) => { if (result instanceof Error) return reject(result)
\*               return resolve(result) }
callback(p, result) ==
  IF InstanceofError(result) THEN reject(p, result) ELSE resolve(p, result)

\* new Promise(executor): a throw out of the executor rejects the promise
executorThrew(p, e) == reject(p, e)

\* runMiddleware(req, res, fn): the promise is made and fn is entered
RunMiddleware ==
  /\ ~fn.sync
  /\ promise' = [id |-> 1 - promise.id, state |-> "pending", value |-> Undefined]
  /\ fn' = [sync |-> TRUE, events |-> <<>>]
  /\ UNCHANGED <<serverVars, rollbarVars, staticMw, call>>

\* fn invokes its completion callback, in its synchronous part or later
InvokeCallback(v) ==
  /\ promise.state # "none"
  /\ Len(fn.events) < MaxCallbacks
  /\ promise' = callback(promise, v)
  /\ fn' = [fn EXCEPT !.events = Append(@, [kind |-> "callback", value |-> v])]
  /\ UNCHANGED <<serverVars, rollbarVars, staticMw, call>>

\* fn throws out of its synchronous part
FnThrows(e) ==
  /\ fn.sync
  /\ promise' = executorThrew(promise, e)
  /\ fn' = [sync |-> FALSE,
            events |-> Append(fn.events, [kind |-> "throw", value |-> e])]
  /\ UNCHANGED <<serverVars, rollbarVars, staticMw, call>>

\* fn returns from its synchronous part
FnReturns ==
  /\ fn.sync
  /\ fn' = [fn EXCEPT !.sync = FALSE]
  /\ UNCHANGED <<promise, serverVars, rollbarVars, staticMw, call>>

----------------------------------------------------------------------------
(* Specifications *)

Init ==
  /\ app = NoApp
  /\ hits = NoHits
  /\ sent = NoHits
  /\ req = NoReq
  /\ res = NewRes
  /\ rollbar = Undefined
  /\ constructed = 0
  /\ handler = NoHandler
  /\ hcall = NoHcall
  /\ lastCheck = NoCheck
  /\ staticMw = Undefined
  /\ call = NoCall
  /\ promise = NoPromise
  /\ fn = NoFn

\* the entry points that take `isProd`
SetupNext ==
  \/ \E o \in ServerOptions : CreateServer(o)
  \/ \E o \in RollbarOptions : CreateRollbar(o)
  \/ \E path \in StaticPaths, o \in StaticOptions : ServeStatic(path, o)
  \/ GetRollbarHandler

SetupSpec == Init /\ [][SetupNext]_vars

\* a server and requests of every shape from one source, a few per window
HeaderRequests == {rq \in Requests : rq.ip = ObservedIP}

HeaderRequestAllowed(rq) == sent[rq.ip] < MaxHeaderRequests

HeadersNext ==
  \/ \E o \in ServerOptions : CreateServer(o)
  \/ \E rq \in HeaderRequests : HeaderRequestAllowed(rq) /\ HandleRequest(rq)
  \/ WindowReset

HeadersSpec == Init /\ [][HeadersNext]_vars

\* a server and a window's worth of requests from one source, among a few
\* from another
RateServerOptions ==
  {o \in ServerOptions : o.host = "feross.org" /\ ~IsNullish(o.isProd)}

RateRequests ==
  {rq \in Requests :
     /\ rq.method = "GET"
     /\ rq.url = "/"
     /\ rq.hostname = "feross.org"
     /\ (rq.ip = ObservedIP \/ rq.protocol = "https")}

RateRequestAllowed(rq) ==
  /\ sent[rq.ip] < (IF rq.ip = ObservedIP THEN MaxRequests ELSE MaxOtherRequests)
  /\ \A i \in 1..Len(app.stack) :
       (app.stack[i].name = "securityHeaders"
          /\ ShouldRedirect(app.stack[i].opts.isProd, app.stack[i].opts.host, rq))
       => sent[rq.ip] - hits[rq.ip] < MaxRedirects

RateNext ==
  \/ \E o \in RateServerOptions : CreateServer(o)
  \/ \E rq \in RateRequests :
       app # NoApp /\ RateRequestAllowed(rq) /\ HandleRequest(rq)
  \/ WindowReset

RateSpec == Init /\ [][RateNext]_vars

\* the error-reporting client and its handler
RollbarNext ==
  \/ \E o \in RollbarOptions : CreateRollbar(o)
  \/ GetRollbarHandler
  \/ \E err \in Reportables : InvokeHandler(err)
  \/ \E u \in BOOLEAN, err \in Reportables : ReportError(u, err)

RollbarSpec == Init /\ [][RollbarNext]_vars

\* runMiddleware and the middleware it wraps
PromiseNext ==
  \/ RunMiddleware
  \/ \E v \in CallbackValues : InvokeCallback(v)
  \/ \E e \in CallbackValues : FnThrows(e)
  \/ FnReturns

PromiseSpec == Init /\ [][PromiseNext]_vars

Next == SetupNext \/ HeadersNext \/ RollbarNext \/ PromiseNext

Spec == Init /\ [][Next]_vars

----------------------------------------------------------------------------
(* Properties *)

\* a request has been handled by the server now in `app`
Handled == app # NoApp /\ req # NoReq

\* how many times middleware `name` called next for the last request
NextCalls(name) == Cardinality({i \in 1..Len(res.next) : res.next[i] = name})

\* C1: the security middleware answers a request with a 301 redirect to
\* https://H<url> exactly when isProd is true, the method is GET and the
\* protocol is not https or the hostname is not H; a redirected request
\* ends the chain (no next, neither security header); with isProd false
\* nothing is ever redirected.
C1_RedirectExactlyWhen ==
  Handled =>
    LET c == app.closure
        cond == /\ c.isProd = Bool(TRUE)
                /\ req.method = "GET"
                /\ (req.protocol # "https" \/ req.hostname # c.host)
    IN /\ (res.status = 301) <=> cond
       /\ cond =>
            /\ res.headers["Location"] = "https://" \o c.host \o req.url
            /\ res.ended
            /\ res.next = <<>>
            /\ ~res.forwarded
            /\ res.headers["Strict-Transport-Security"] = ""
            /\ res.headers["X-Content-Type-Options"] = ""
       /\ ~cond => res.headers["Location"] = ""
       /\ c.isProd = Bool(FALSE) => res.status # 301

\* a GET over https to a host other than the canonical one was redirected
C1_Witness ==
  /\ Handled
  /\ app.closure.isProd = Bool(TRUE)
  /\ app.closure.host = "feross.org"
  /\ req.method = "GET" /\ req.protocol = "https"
  /\ req.hostname = "www.feross.org" /\ req.url = "/a?b=1"
  /\ res.status = 301
  /\ res.headers["Location"] = "https://feross.org/a?b=1"

ProdDefault ==
  /\ app # NoApp
  /\ app.closure.isProd = Bool(TRUE)
  /\ app.closure.maxRequestsPerSecond = Undefined

\* the rate limiter's rejection
Blocked ==
  /\ res.status = 503
  /\ res.body = "Blocked for too many requests"
  /\ ~res.forwarded
  /\ NextCalls("rateLimit") = 0

\* C3 as stated: with isProd = true and maxRequestsPerSecond = 5, the 301st
\* request of one source within the window receives the 503 and is not
\* forwarded, and the 300th does not receive it.
C3_Original ==
  (ProdDefault /\ req # NoReq /\ req.ip = ObservedIP) =>
    /\ sent[ObservedIP] = 301 => Blocked
    /\ sent[ObservedIP] = 300 => res.status # 503

\* C3, amended: with isProd = true and maxRequestsPerSecond = 5, among the
\* requests of one source that reach the rate limiter within one window
\* (a request the security middleware redirects does not reach it and is
\* not counted), the 301st receives the 503 and is not forwarded, and
\* the 300th, like every one before it, does not receive it.
C3_ReachingLimiter ==
  (ProdDefault /\ req # NoReq) =>
    /\ res.status = 301 => res.rateLimit.current = 0
    /\ res.status # 301 =>
         /\ res.rateLimit.current >= 1
         /\ res.rateLimit.current >= 301 => Blocked
         /\ res.rateLimit.current <= 300 => (res.status # 503 /\ res.forwarded)

\* the 301st request to reach the limiter was blocked, after more than 301
\* requests of the source in the window
C3_Witness ==
  /\ ProdDefault
  /\ req.ip = ObservedIP
  /\ res.rateLimit.current = 301
  /\ sent[ObservedIP] > 301
  /\ Blocked

\* C8: with isProd = false no request, whatever the volume and the source,
\* receives a 503 from the rate limiter: no rate limiter is attached.
C8_NoLimiterOutsideProd ==
  (app # NoApp /\ app.closure.isProd = Bool(FALSE)) =>
    /\ \A i \in 1..Len(app.stack) : app.stack[i].name # "rateLimit"
    /\ res.status # 503
    /\ res.rateLimit.current = 0
    /\ hits = NoHits
    /\ req # NoReq => res.forwarded

\* more than 300 requests of one source in a window, the last one served
C8_Witness ==
  /\ app # NoApp
  /\ app.closure.isProd = Bool(FALSE)
  /\ sent[ObservedIP] > 300
  /\ sent["10.0.0.2"] > 0
  /\ req.ip = ObservedIP
  /\ res.forwarded
  /\ res.status # 503

\* the step is a call of createServer, createRollbar or serveStatic
EntryPointCall == call'.seq # call.seq

\* C4: createServer, createRollbar and serveStatic called without isProd
\* (undefined or null) throw before any effect: no application is built,
\* no static middleware is returned, the global client slot stays as it is.
C4_MissingIsProdThrows ==
  [][(EntryPointCall /\ IsNullish(call'.isProd)) =>
       /\ call'.threw
       /\ UNCHANGED <<app, hits, sent, req, res, staticMw, rollbar,
                      constructed, handler>>]_vars

\* serveStatic threw for a missing isProd with a server, a client and a
\* static middleware in place
C4_Witness ==
  /\ call.op = "serveStatic"
  /\ call.isProd = Null
  /\ call.threw
  /\ app # NoApp
  /\ rollbar # Undefined
  /\ staticMw # Undefined

\* the outcome a completion-callback invocation with v gives a pending promise
SettledBy(v) ==
  /\ promise.value = v
  /\ promise.state = (IF v.t = "error" THEN "rejected" ELSE "fulfilled")

Invocations == SelectSeq(fn.events, LAMBDA e : e.kind = "callback")

\* C9 as stated: the outcome is fixed by the first invocation of the
\* callback and never changes, and while the callback has not been
\* invoked the promise is unresolved.
C9_Original ==
  promise.state # "none" =>
    IF Invocations = <<>> THEN promise.state = "pending"
    ELSE SettledBy(Invocations[1].value)

\* the promise is settled
Settled == promise.state \in {"fulfilled", "rejected"}

\* C9, amended: the promise settles at most once, by the first of fn's
\* completion-callback invocations and a throw out of fn's synchronous
\* part, and never changes afterwards; a fn that neither invokes the
\* callback nor throws leaves it pending.
C9_FirstEventDecides ==
  /\ [](promise.state # "none" =>
          IF fn.events = <<>> THEN promise.state = "pending"
          ELSE IF fn.events[1].kind = "callback"
               THEN SettledBy(fn.events[1].value)
               ELSE promise.state = "rejected"
                    /\ promise.value = fn.events[1].value)
  /\ [][(Settled /\ promise'.id = promise.id) => promise' = promise]_vars

\* fn threw, then invoked the callback twice: the throw decided
C9_Witness ==
  /\ Len(fn.events) = 3
  /\ fn.events[1] = [kind |-> "throw", value |-> Str("route")]
  /\ fn.events[2].kind = "callback" /\ fn.events[2].value = Undefined
  /\ fn.events[3].kind = "callback" /\ fn.events[3].value.t = "error"
  /\ promise.state = "rejected"
  /\ promise.value = Str("route")

\* C6: while no client has been initialized, getRollbarHandler returns the
\* pass-through, which when run calls next once, with no argument, and
\* does nothing else.
C6_PassThroughWhenUninitialized ==
  /\ [](constructed = 0 =>
          /\ rollbar = Undefined
          /\ handler \in {NoHandler, PassThrough}
          /\ hcall \in {NoHcall,
                        [next |-> << <<>> >>, reported |-> FALSE,
                         resEnded |-> FALSE]})
  /\ [][(constructed = 0 /\ hcall' # hcall /\ hcall' # NoHcall) =>
          /\ hcall'.next = << <<>> >>
          /\ UNCHANGED <<serverVars, rollbar, constructed, handler,
                         lastCheck, staticMw, call, promise, fn>>]_vars

\* after createRollbar calls outside production and one that threw, the
\* handler was fetched and run
C6_Witness ==
  /\ constructed = 0
  /\ call.op = "createRollbar"
  /\ call.isProd = Undefined
  /\ call.threw
  /\ handler = PassThrough
  /\ hcall.next = << <<>> >>

\* C7: checkIgnore is false for every error when isUncaught is true; when
\* it is false, checkIgnore is true for the statuses 400, 403, 404, 412,
\* 416 and false for any other status, an absent one included.
C7_CheckIgnore ==
  lastCheck.n = 1 =>
    (lastCheck.ignore <=>
       /\ ~lastCheck.isUncaught
       /\ lastCheck.err.t = "error"
       /\ \E code \in {400, 403, 404, 412, 416} :
            lastCheck.err.status = Num(code))

\* a caught 416 was ignored
C7_Witness ==
  /\ lastCheck.n = 1
  /\ ~lastCheck.isUncaught
  /\ lastCheck.err = Error("e1", Num(416))
  /\ lastCheck.ignore

\* C10 as stated: at most one client is ever constructed and written to
\* the slot, and once the slot holds a client nothing clears or replaces it.
C10_Original ==
  [][/\ constructed' <= 1
     /\ rollbar # Undefined => rollbar' = rollbar]_vars

\* C10, amended: the slot is never cleared, and createRollbar with isProd
\* false or missing leaves it as it is; every createRollbar call with
\* isProd true constructs a new client and writes it to the slot, in place
\* of the one before (the last write wins).
C10_NeverClearedLastWriteWins ==
  [][/\ rollbar # Undefined => rollbar' # Undefined
     /\ (EntryPointCall /\ call'.op = "createRollbar"
           /\ call'.isProd # Bool(TRUE)) =>
          UNCHANGED <<rollbar, constructed>>
     /\ (EntryPointCall /\ call'.op = "createRollbar"
           /\ call'.isProd = Bool(TRUE)) =>
          /\ constructed' = constructed + 1
          /\ rollbar' # rollbar
          /\ rollbar'.id = constructed'
          /\ rollbar'.accessToken \in AccessTokens
     /\ rollbar' # rollbar =>
          (EntryPointCall /\ call'.op = "createRollbar"
             /\ call'.isProd = Bool(TRUE))]_vars

\* a second client took the place of the first, and a later call outside
\* production left it there
C10_Witness ==
  /\ constructed = 2
  /\ rollbar # Undefined
  /\ rollbar.id = 2
  /\ call.op = "createRollbar"
  /\ call.isProd = Bool(FALSE)
  /\ handler = [kind |-> "errorHandler", client |-> 2]

====
